---------------------------- MODULE Spec2Model ----------------------------
(***************************************************************************)
(* CrabToken (src/src/lib.rs): signed tokens "<b64(payload)>.<b64(mac)>".  *)
(*                                                                         *)
(* Text is a sequence of character codes, a byte string a sequence of      *)
(* numbers 0..255.  create_token, decode_token and the helpers are pure    *)
(* operators; verify_token is a step machine with one action per gate so   *)
(* that the order of its gates is observable.                              *)
(***************************************************************************)
EXTENDS Integers, Sequences, FiniteSets, TLC

(***************************************************************************)
(* Bounds of the model.                                                    *)
(***************************************************************************)
\* The clock readings Utc::now() may return are 38 .. 38 + NowSpan.
NowSpan == 2
\* A raw (attacker chosen) token is made of 1 .. MaxParts segments.
MaxParts == 3

(***************************************************************************)
(* Program constants.                                                      *)
(***************************************************************************)
\* '.', the separator of format!("{}.{}") and token.split('.').
Dot == 46
\* Hmac<Sha256>: block size and output size of SHA-256, in bytes.
BlockLen == 64
DigestLen == 32

(***************************************************************************)
(* base64 0.2x, engine URL_SAFE_NO_PAD: alphabet A-Z a-z 0-9 - _, no       *)
(* padding written, none accepted, trailing bits must be zero.             *)
(***************************************************************************)
\* The character of a 6-bit value.
Sym(v) ==
    IF v < 26 THEN 65 + v
    ELSE IF v < 52 THEN 97 + (v - 26)
    ELSE IF v < 62 THEN 48 + (v - 52)
    ELSE IF v = 62 THEN 45
    ELSE 95

\* The 6-bit value of a character, -1 for a character outside the alphabet.
SymValue(c) ==
    IF c >= 65 /\ c <= 90 THEN c - 65
    ELSE IF c >= 97 /\ c <= 122 THEN c - 97 + 26
    ELSE IF c >= 48 /\ c <= 57 THEN c - 48 + 52
    ELSE IF c = 45 THEN 62
    ELSE IF c = 95 THEN 63
    ELSE -1

RECURSIVE B64Encode(_)
\* URL_SAFE_NO_PAD.encode: 3 bytes -> 4 characters, a tail of 1 or 2 bytes
\* -> 2 or 3 characters, no '='.
B64Encode(b) ==
    IF Len(b) = 0 THEN << >>
    ELSE IF Len(b) = 1 THEN
        << Sym(b[1] \div 4), Sym((b[1] % 4) * 16) >>
    ELSE IF Len(b) = 2 THEN
        << Sym(b[1] \div 4), Sym((b[1] % 4) * 16 + (b[2] \div 16)),
           Sym((b[2] % 16) * 4) >>
    ELSE
        << Sym(b[1] \div 4), Sym((b[1] % 4) * 16 + (b[2] \div 16)),
           Sym((b[2] % 16) * 4 + (b[3] \div 64)), Sym(b[3] % 64) >>
        \o B64Encode(SubSeq(b, 4, Len(b)))

RECURSIVE B64Bytes(_)
\* The bytes of a sequence of 6-bit values whose length is not 1 mod 4.
B64Bytes(v) ==
    IF Len(v) < 2 THEN << >>
    ELSE IF Len(v) = 2 THEN
        << v[1] * 4 + (v[2] \div 16) >>
    ELSE IF Len(v) = 3 THEN
        << v[1] * 4 + (v[2] \div 16), (v[2] % 16) * 16 + (v[3] \div 4) >>
    ELSE
        << v[1] * 4 + (v[2] \div 16), (v[2] % 16) * 16 + (v[3] \div 4),
           (v[3] % 4) * 64 + v[4] >>
        \o B64Bytes(SubSeq(v, 5, Len(v)))

\* Variant: trailing bits are accepted (decode_allow_trailing_bits on).
TrailingBitsAllowed(v) == FALSE

\* Whether the last symbol of a tail carries non-zero bits past the last byte
\* (DecodeError::InvalidLastSymbol: decode_allow_trailing_bits is off).
TrailingBits(v) ==
    \/ Len(v) % 4 = 2 /\ v[Len(v)] % 16 # 0
    \/ Len(v) % 4 = 3 /\ v[Len(v)] % 4 # 0

\* URL_SAFE_NO_PAD.decode: [ok, bytes].
B64Decode(s) ==
    LET v == [i \in 1..Len(s) |-> SymValue(s[i])] IN
    IF \E i \in 1..Len(s) : v[i] = -1 THEN [ok |-> FALSE, bytes |-> << >>]
    ELSE IF Len(s) % 4 = 1 THEN [ok |-> FALSE, bytes |-> << >>]
    ELSE IF TrailingBits(v) THEN [ok |-> FALSE, bytes |-> << >>]
    ELSE [ok |-> TRUE, bytes |-> B64Bytes(v)]

(***************************************************************************)
(* str::split('.'): the pieces between the separators; a string without    *)
(* separator is one piece, empty pieces are kept.                          *)
(***************************************************************************)
RECURSIVE Split(_)
Split(s) ==
    IF \A i \in 1..Len(s) : s[i] # Dot THEN << s >>
    ELSE LET i == CHOOSE k \in 1..Len(s) :
                      s[k] = Dot /\ \A j \in 1..(k - 1) : s[j] # Dot
         IN << SubSeq(s, 1, i - 1) >> \o Split(SubSeq(s, i + 1, Len(s)))

(***************************************************************************)
(* rmp_serde to_vec / from_slice (MessagePack).  A struct is written as a  *)
(* fixarray of its fields in order, an integer in its shortest form.  The  *)
(* model covers integers -128..255: positive fixint, uint8 (0xcc),         *)
(* negative fixint, int8 (0xd0).                                           *)
(* Two payload types: Claims {user_id: u64, exp: i64}, which implements    *)
(* Expirable, and Ticket {user_id: u64}, which only implements Serialize.  *)
(***************************************************************************)
write_uint(v) == IF v < 128 THEN << v >> ELSE << 204, v >>

write_sint(v) ==
    IF v >= 0 THEN write_uint(v)
    ELSE IF v >= -32 THEN << 256 + v >>
    ELSE << 208, 256 + v >>

to_vec(p) ==
    IF "exp" \in DOMAIN p
    THEN << 146 >> \o write_uint(p.user_id) \o write_sint(p.exp)
    ELSE << 145 >> \o write_uint(p.user_id)

\* Variant: a negative fixint is read as an unsigned byte.
read_int_unsigned(b, i) ==
    IF i > Len(b) THEN [ok |-> FALSE, val |-> 0, next |-> i]
    ELSE IF b[i] < 128 \/ b[i] >= 224
        THEN [ok |-> TRUE, val |-> b[i], next |-> i + 1]
    ELSE IF (b[i] = 204 \/ b[i] = 208) /\ i + 1 <= Len(b)
        THEN [ok |-> TRUE, val |-> b[i + 1], next |-> i + 2]
    ELSE [ok |-> FALSE, val |-> 0, next |-> i]

\* The integer at position i of b: [ok, val, next].
read_int(b, i) ==
    IF i > Len(b) THEN [ok |-> FALSE, val |-> 0, next |-> i]
    ELSE IF b[i] < 128 THEN [ok |-> TRUE, val |-> b[i], next |-> i + 1]
    ELSE IF b[i] >= 224 THEN [ok |-> TRUE, val |-> b[i] - 256, next |-> i + 1]
    ELSE IF b[i] = 204 /\ i + 1 <= Len(b)
        THEN [ok |-> TRUE, val |-> b[i + 1], next |-> i + 2]
    ELSE IF b[i] = 208 /\ i + 1 <= Len(b)
        THEN [ok |-> TRUE,
              val |-> IF b[i + 1] >= 128 THEN b[i + 1] - 256 ELSE b[i + 1],
              next |-> i + 2]
    ELSE [ok |-> FALSE, val |-> 0, next |-> i]

\* from_slice::<Claims>: [ok, value].  Bytes after the value are not read.
from_slice(b) ==
    LET bad == [ok |-> FALSE, value |-> << >>]
        u == read_int(b, 2)
        e == read_int(b, u.next)
    IN  IF Len(b) = 0 \/ b[1] # 146 THEN bad
        ELSE IF ~u.ok \/ u.val < 0 THEN bad
        ELSE IF ~e.ok THEN bad
        ELSE [ok |-> TRUE, value |-> [user_id |-> u.val, exp |-> e.val]]

(***************************************************************************)
(* HMAC-SHA256.  The key is brought to the block size as RFC 2104 does: a  *)
(* key of at most BlockLen bytes is padded with zero bytes on the right.   *)
(* SHA-256 itself is idealised: the digest is a DigestLen-byte code of     *)
(* (block key, message) that is injective on the model's inputs, that is,  *)
(* a deterministic MAC without collisions.                                 *)
(***************************************************************************)
hmac_key(secret) ==
    secret \o [i \in 1..(BlockLen - Len(secret)) |-> 0]

RECURSIVE StripZeros(_)
StripZeros(k) ==
    IF Len(k) > 0 /\ k[Len(k)] = 0 THEN StripZeros(SubSeq(k, 1, Len(k) - 1))
    ELSE k

Digest(key, msg) ==
    LET core == StripZeros(key)
        body == << Len(core) >> \o core \o << Len(msg) >> \o msg
    IN  [i \in 1..DigestLen |->
            ((IF i <= Len(body) THEN body[i] ELSE 0) + 54 + 7 * i) % 256]

\* Variant: the MAC is keyed with the empty key whatever the secret.
sign_payload_unkeyed(secret, payload) == Digest(hmac_key(<< >>), payload)

sign_payload(secret, payload) == Digest(hmac_key(secret), payload)

(***************************************************************************)
(* Results.                                                                *)
(***************************************************************************)
Ok(p) == [kind |-> "Ok", payload |-> p]
Err(k) == [kind |-> k]

(***************************************************************************)
(* create_token and decode_token.                                          *)
(***************************************************************************)
\* Variant: the signature covers the encoded text, not the raw bytes.
create_token_signs_text(p, secret) ==
    LET payload_bytes == to_vec(p)
        sig == sign_payload(secret, B64Encode(payload_bytes))
    IN  B64Encode(payload_bytes) \o << Dot >> \o B64Encode(sig)

create_token(p, secret) ==
    LET payload_bytes == to_vec(p)
        sig == sign_payload(secret, payload_bytes)
    IN  B64Encode(payload_bytes) \o << Dot >> \o B64Encode(sig)

\* Variant: the second segment is decoded too.
decode_token_both_segments(t) ==
    LET ps == Split(t) IN
    IF Len(ps) # 2 THEN Err("Format")
    ELSE LET dec == B64Decode(ps[1])
             sig == B64Decode(ps[2])
         IN  IF ~dec.ok \/ ~sig.ok THEN Err("Encoding")
             ELSE LET p == from_slice(dec.bytes) IN
                  IF ~p.ok THEN Err("Deserialization") ELSE Ok(p.value)

decode_token(t) ==
    LET ps == Split(t) IN
    IF Len(ps) # 2 THEN Err("Format")
    ELSE LET dec == B64Decode(ps[1]) IN
         IF ~dec.ok THEN Err("Encoding")
         ELSE LET p == from_slice(dec.bytes) IN
              IF ~p.ok THEN Err("Deserialization") ELSE Ok(p.value)

(***************************************************************************)
(* The comparisons of verify_token.                                        *)
(***************************************************************************)
\* Variant: only the lengths are compared.
signature_length_differs(sig, expected) == Len(sig) # Len(expected)

\* signature != expected_signature: Vec<u8> inequality, lengths included.
signature_differs(sig, expected) == sig # expected

\* Variant: a token that expires now is rejected.
is_expired_inclusive(exp, now) == exp <= now

\* exp_timestamp < now_timestamp
is_expired(exp, now) == exp < now

(***************************************************************************)
(* Inputs.                                                                 *)
(***************************************************************************)
\* "s3cr3t", "s3cr3t\0" and "wrong".
Secrets ==
    { << 115, 51, 99, 114, 51, 116 >>,
      << 115, 51, 99, 114, 51, 116, 0 >>,
      << 119, 114, 111, 110, 103 >> }

ClaimsSet == [user_id : {42, 128}, exp : {-1, 39, 40}]
TicketSet == [user_id : {42}]
Payloads == ClaimsSet \cup TicketSet

\* What Utc::now().timestamp() may return.
Nows == 38..(38 + NowSpan)

\* Segments of raw tokens: the empty one, the encoding of a Claims value,
\* "!" (not in the alphabet), "k" (no valid length), and the MAC of the
\* empty byte string under "s3cr3t".
RawSegs ==
    { << >>,
      B64Encode(to_vec([user_id |-> 42, exp |-> 39])),
      << 33 >>,
      << 107 >>,
      B64Encode(sign_payload(<< 115, 51, 99, 114, 51, 116 >>, << >>)) }

RECURSIVE Join(_)
\* The segments joined by '.'.
Join(segs) ==
    IF Len(segs) = 1 THEN segs[1]
    ELSE segs[1] \o << Dot >> \o Join(Tail(segs))

RawTokens ==
    { Join(segs) : segs \in UNION { [1..n -> RawSegs] : n \in 1..MaxParts } }

\* The character c with bit b flipped.
FlipBit(c, b) ==
    IF (c \div (2 ^ b)) % 2 = 1 THEN c - 2 ^ b ELSE c + 2 ^ b

(***************************************************************************)
(* State.  token is the string handed to verify_token / decode_token;      *)
(* origin, srcP, srcS and flip record how it was made.  secret .. result   *)
(* are the parameters, locals and return value of the running call, trace  *)
(* the gates it has evaluated.                                             *)
(***************************************************************************)
VARIABLES token, origin, srcP, srcS, flip,
          pc, secret, parts, payload_bytes, signature, expected_signature,
          payload, now_timestamp, result, trace

vars == << token, origin, srcP, srcS, flip,
           pc, secret, parts, payload_bytes, signature, expected_signature,
           payload, now_timestamp, result, trace >>

input == << token, origin, srcP, srcS, flip >>
locals == << parts, payload_bytes, signature, expected_signature,
             payload, now_timestamp >>

Pending == [kind |-> "Pending"]

Init ==
    /\ token = << >> /\ origin = "none" /\ srcP = << >> /\ srcS = << >>
    /\ flip = << >>
    /\ pc = "input" /\ secret = << >> /\ parts = << >>
    /\ payload_bytes = << >> /\ signature = << >>
    /\ expected_signature = << >> /\ payload = << >>
    /\ now_timestamp = 0 /\ result = Pending /\ trace = << >>

\* create_token(&p, s)
CreateToken(p, s) ==
    /\ pc = "input"
    /\ token' = create_token(p, s)
    /\ origin' = "created" /\ srcP' = p /\ srcS' = s
    /\ pc' = "ready"
    /\ UNCHANGED << flip, secret, locals, result, trace >>

\* One bit of one character of a created token is flipped on the way to
\* the verifier.  The result stays a str: bit 7 is never set.
Tamper(i, b) ==
    /\ pc = "ready" /\ origin = "created"
    /\ token' = [token EXCEPT ![i] = FlipBit(token[i], b)]
    /\ origin' = "tampered" /\ flip' = << i, b >>
    /\ UNCHANGED << srcP, srcS, pc, secret, locals, result, trace >>

\* A string that no create_token call made.
RawToken(t) ==
    /\ pc = "input"
    /\ token' = t
    /\ origin' = "raw"
    /\ pc' = "ready"
    /\ UNCHANGED << srcP, srcS, flip, secret, locals, result, trace >>

\* decode_token::<Claims>(token)
DecodeToken ==
    /\ pc = "ready"
    /\ result' = decode_token(token)
    /\ pc' = "decoded"
    /\ UNCHANGED << input, secret, locals, trace >>

\* verify_token::<Claims>(s, token), lines 97-100
VerifySplit(s) ==
    /\ pc = "ready"
    /\ secret' = s
    /\ parts' = Split(token)
    /\ trace' = << "split" >>
    /\ IF Len(parts') # 2
       THEN result' = Err("Format") /\ pc' = "done"
       ELSE result' = result /\ pc' = "decode"
    /\ UNCHANGED << input, payload_bytes, signature, expected_signature,
                    payload, now_timestamp >>

\* Variant: a signature segment that does not decode counts as an empty
\* signature.
VerifyDecodeLenient ==
    /\ pc = "decode"
    /\ trace' = Append(trace, "decode")
    /\ LET p == B64Decode(parts[1])
           g == B64Decode(parts[2])
       IN  IF ~p.ok
           THEN /\ result' = Err("Encoding") /\ pc' = "done"
                /\ UNCHANGED << payload_bytes, signature >>
           ELSE /\ payload_bytes' = p.bytes
                /\ signature' = g.bytes
                /\ result' = result /\ pc' = "mac"
    /\ UNCHANGED << input, secret, parts, expected_signature, payload,
                    now_timestamp >>

\* lines 102-103: the second segment is decoded only if the first one was
VerifyDecode ==
    /\ pc = "decode"
    /\ trace' = Append(trace, "decode")
    /\ LET p == B64Decode(parts[1])
           g == B64Decode(parts[2])
       IN  IF ~p.ok
           THEN /\ result' = Err("Encoding") /\ pc' = "done"
                /\ UNCHANGED << payload_bytes, signature >>
           ELSE /\ payload_bytes' = p.bytes
                /\ IF ~g.ok
                   THEN /\ result' = Err("Encoding") /\ pc' = "done"
                        /\ UNCHANGED signature
                   ELSE /\ signature' = g.bytes
                        /\ result' = result /\ pc' = "mac"
    /\ UNCHANGED << input, secret, parts, expected_signature, payload,
                    now_timestamp >>

\* Variant: the payload is deserialized before the signatures are compared.
VerifyMacAfterParse ==
    /\ pc = "mac"
    /\ IF ~from_slice(payload_bytes).ok
       THEN /\ trace' = trace \o << "mac", "deser" >>
            /\ result' = Err("Deserialization") /\ pc' = "done"
            /\ UNCHANGED expected_signature
       ELSE /\ trace' = Append(trace, "mac")
            /\ expected_signature' = sign_payload(secret, payload_bytes)
            /\ IF signature # expected_signature'
               THEN result' = Err("Signature") /\ pc' = "done"
               ELSE result' = result /\ pc' = "deser"
    /\ UNCHANGED << input, secret, parts, payload_bytes, signature, payload,
                    now_timestamp >>

\* lines 105-108
VerifyMac ==
    /\ pc = "mac"
    /\ trace' = Append(trace, "mac")
    /\ expected_signature' = sign_payload(secret, payload_bytes)
    /\ IF signature_differs(signature, expected_signature')
       THEN result' = Err("Signature") /\ pc' = "done"
       ELSE result' = result /\ pc' = "deser"
    /\ UNCHANGED << input, secret, parts, payload_bytes, signature, payload,
                    now_timestamp >>

\* line 110
VerifyDeser ==
    /\ pc = "deser"
    /\ trace' = Append(trace, "deser")
    /\ LET p == from_slice(payload_bytes)
       IN  IF ~p.ok
           THEN result' = Err("Deserialization") /\ pc' = "done"
                /\ UNCHANGED payload
           ELSE payload' = p.value /\ result' = result /\ pc' = "exp"
    /\ UNCHANGED << input, secret, parts, payload_bytes, signature,
                    expected_signature, now_timestamp >>

\* lines 112-119
VerifyExp(now) ==
    /\ pc = "exp"
    /\ trace' = Append(trace, "exp")
    /\ now_timestamp' = now
    /\ IF is_expired(payload.exp, now)
       THEN result' = Err("Expired")
       ELSE result' = Ok(payload)
    /\ pc' = "done"
    /\ UNCHANGED << input, secret, parts, payload_bytes, signature,
                    expected_signature, payload >>

Next ==
    \/ \E p \in Payloads, s \in Secrets : CreateToken(p, s)
    \/ \E i \in 1..Len(token), b \in 0..6 : Tamper(i, b)
    \/ \E t \in RawTokens : RawToken(t)
    \/ DecodeToken
    \/ \E s \in Secrets : VerifySplit(s)
    \/ VerifyDecode
    \/ VerifyMac
    \/ VerifyDeser
    \/ \E now \in Nows : VerifyExp(now)

Spec == Init /\ [][Next]_vars

(***************************************************************************)
(* Vocabulary of the properties.                                           *)
(***************************************************************************)
GateOrder == << "split", "decode", "mac", "deser", "exp" >>
Ran(g) == \E i \in 1..Len(trace) : trace[i] = g
VerifyDone == pc = "done"
DecodeDone == pc = "decoded"
IsClaims(p) == DOMAIN p = {"user_id", "exp"}

\* What the gates of verify_token decide, computed from the call's arguments.
TwoParts == Len(Split(token)) = 2
Seg(k) == Split(token)[k]
PayloadDecodes == B64Decode(Seg(1)).ok
BothDecode == PayloadDecodes /\ B64Decode(Seg(2)).ok
RawPayload == B64Decode(Seg(1)).bytes
MacMatches == B64Decode(Seg(2)).bytes = sign_payload(secret, RawPayload)
Parses == from_slice(RawPayload).ok
Parsed == from_slice(RawPayload).value

\* The token is a created one with one bit of a segment character flipped.
SegmentFlipped ==
    origin = "tampered" /\ create_token(srcP, srcS)[flip[1]] # Dot

(***************************************************************************)
(* C1: verify_token succeeds only if the token has exactly two segments,   *)
(* both decode, the decoded second segment equals the signature recomputed *)
(* with the given secret over the decoded first segment, and the payload's *)
(* exp is not less than the time read; otherwise it returns an error that  *)
(* carries no payload.                                                     *)
(***************************************************************************)
C1_SuccessOnlyIfAllGatesPass ==
    VerifyDone =>
        IF result.kind = "Ok"
        THEN /\ TwoParts
             /\ BothDecode
             /\ MacMatches
             /\ Parses /\ result.payload = Parsed
             /\ ~(result.payload.exp < now_timestamp)
        ELSE /\ DOMAIN result = {"kind"}
             /\ result.kind \in {"Format", "Encoding", "Signature",
                                 "Deserialization", "Expired"}

C1_Witness ==
    VerifyDone /\ result.kind = "Ok" /\ origin = "created" /\ secret = srcS

(***************************************************************************)
(* C2: deserialization happens only after the signature comparison has     *)
(* passed; with a mismatching signature verify_token fails with the        *)
(* signature error and never reaches deserialization, also when the        *)
(* payload bytes are malformed.                                            *)
(***************************************************************************)
C2_DeserializeOnlyAfterMac ==
    /\ Ran("deser") =>
          Ran("mac") /\ signature = sign_payload(secret, payload_bytes)
    /\ (VerifyDone /\ TwoParts /\ BothDecode /\ ~MacMatches) =>
          result = Err("Signature") /\ ~Ran("deser")

C2_Witness ==
    /\ VerifyDone /\ TwoParts /\ BothDecode /\ ~MacMatches /\ ~Parses
    /\ result = Err("Signature") /\ ~Ran("deser")

(***************************************************************************)
(* C3: verify_token(S, create_token(P, S)) runs all gates and returns P    *)
(* when P's expiration is later than the time read.                        *)
(***************************************************************************)
C3_VerifyOfCreate ==
    (VerifyDone /\ origin = "created" /\ IsClaims(srcP) /\ secret = srcS) =>
        /\ trace = GateOrder
        /\ srcP.exp > now_timestamp => result = Ok(srcP)

C3_Witness ==
    /\ VerifyDone /\ origin = "created" /\ IsClaims(srcP) /\ secret = srcS
    /\ srcP.exp > now_timestamp /\ result = Ok(srcP)

(***************************************************************************)
(* C4: a string with zero separators, with two or more, or with one        *)
(* separator and an empty first or second segment, fails with the format   *)
(* error from verify_token and from decode_token.                          *)
(***************************************************************************)
C4_MalformedIsFormatError ==
    ((VerifyDone \/ DecodeDone) /\
     (~TwoParts \/ Seg(1) = << >> \/ Seg(2) = << >>)) =>
        result = Err("Format")

(***************************************************************************)
(* C5 as stated: a created token with one bit of one segment character     *)
(* flipped fails verification, under the creating secret, with the         *)
(* encoding error or the signature error.                                  *)
(***************************************************************************)
C5_TamperEncodingOrSignature ==
    (VerifyDone /\ SegmentFlipped /\ secret = srcS) =>
        result.kind \in {"Encoding", "Signature"}

(***************************************************************************)
(* C5 as amended: such a token never verifies; it fails with the format,   *)
(* the encoding or the signature error (the format error when the flipped  *)
(* character becomes a '.').                                               *)
(***************************************************************************)
C5_TamperNeverVerifies ==
    (VerifyDone /\ SegmentFlipped /\ secret = srcS) =>
        result.kind \in {"Format", "Encoding", "Signature"}

C5_Witness ==
    /\ VerifyDone /\ SegmentFlipped /\ secret = srcS
    /\ IsClaims(srcP) /\ result = Err("Format")

(***************************************************************************)
(* C6 as stated: verify_token(S2, create_token(P, S1)) with S2 # S1 fails  *)
(* with the signature error.                                               *)
(***************************************************************************)
C6_WrongSecretRejected ==
    (VerifyDone /\ origin = "created" /\ secret # srcS) =>
        result = Err("Signature")

(***************************************************************************)
(* C6 as amended: it fails with the signature error when S1 and S2 are     *)
(* different HMAC keys, that is, differ after zero-padding to the block    *)
(* size; expired or not.                                                   *)
(***************************************************************************)
C6_OtherKeyRejected ==
    (VerifyDone /\ origin = "created" /\ hmac_key(secret) # hmac_key(srcS)) =>
        result = Err("Signature")

C6_Witness ==
    /\ VerifyDone /\ origin = "created" /\ hmac_key(secret) # hmac_key(srcS)
    /\ IsClaims(srcP) /\ \A now \in Nows : srcP.exp < now
    /\ result = Err("Signature")

(***************************************************************************)
(* C7: a correctly signed token fails with the expired error exactly when  *)
(* its exp is strictly less than the time read; exp = now and exp > now    *)
(* are accepted.                                                           *)
(***************************************************************************)
C7_ExpiryBoundary ==
    (VerifyDone /\ TwoParts /\ BothDecode /\ MacMatches /\ Parses) =>
        /\ result = Err("Expired") <=> Parsed.exp < now_timestamp
        /\ Parsed.exp >= now_timestamp => result = Ok(Parsed)
        /\ Parsed.exp = now_timestamp - 1 => result = Err("Expired")

C7_Witness ==
    /\ VerifyDone /\ TwoParts /\ BothDecode /\ MacMatches /\ Parses
    /\ Parsed.exp = now_timestamp /\ result = Ok(Parsed)

(***************************************************************************)
(* C8: decode_token(create_token(P, S)) returns P, whatever P's exp.       *)
(***************************************************************************)
C8_DecodeOfCreate ==
    (DecodeDone /\ origin = "created" /\ IsClaims(srcP)) => result = Ok(srcP)

C8_Witness ==
    /\ DecodeDone /\ origin = "created" /\ IsClaims(srcP)
    /\ \A now \in Nows : srcP.exp < now
    /\ srcP.user_id > 127
    /\ result = Ok(srcP)

(***************************************************************************)
(* C9: verify_token evaluates split, decode, signature comparison,         *)
(* deserialization, expiration in this order, stops at the first gate that *)
(* fails and returns that gate's error.                                    *)
(***************************************************************************)
C9_EarliestGateDecides ==
    /\ Len(trace) <= Len(GateOrder)
    /\ trace = SubSeq(GateOrder, 1, Len(trace))
    /\ VerifyDone =>
          IF ~TwoParts THEN result = Err("Format") /\ Len(trace) = 1
          ELSE IF ~BothDecode THEN result = Err("Encoding") /\ Len(trace) = 2
          ELSE IF ~MacMatches THEN result = Err("Signature") /\ Len(trace) = 3
          ELSE IF ~Parses
              THEN result = Err("Deserialization") /\ Len(trace) = 4
          ELSE /\ Len(trace) = 5
               /\ result.kind \in {"Expired", "Ok"}

C9_Witness ==
    /\ VerifyDone /\ TwoParts /\ BothDecode /\ ~MacMatches /\ Parses
    /\ \A now \in Nows : Parsed.exp < now
    /\ result = Err("Signature") /\ trace = SubSeq(GateOrder, 1, 3)

(***************************************************************************)
(* C10: the outcome of decode_token on a string with exactly one '.' is    *)
(* that of every string with the same first segment, whatever the second   *)
(* segment: empty, not base64url, or not the signature.                    *)
(***************************************************************************)
C10_DecodeIgnoresSecondSegment ==
    (DecodeDone /\ TwoParts) =>
        \A g \in RawSegs : decode_token(Seg(1) \o << Dot >> \o g) = result

C10_Witness ==
    /\ DecodeDone /\ TwoParts /\ ~B64Decode(Seg(2)).ok
    /\ result.kind = "Ok"

=============================================================================
